---------------------------- MODULE Spec2Model ----------------------------
(***************************************************************************)
(* FileWorker: an HTTP facade over one object-storage bucket.              *)
(*   src/functions/[filename].ts  GET / PUT / PATCH / DELETE / default     *)
(*   src/functions/[[path]].ts    catch-all GET delegating to the GET above *)
(* Strings are sequences of one-character strings, so that percent         *)
(* decoding, endsWith and slice are computed character by character.       *)
(***************************************************************************)
EXTENDS Integers, Sequences, FiniteSets, TLC

VARIABLES store, before, req, resp

vars == <<store, before, req, resp>>

(***************************************************************************)
(* Bounds                                                                  *)
(***************************************************************************)
\* longest raw string the key-computation specification enumerates
MaxLen == 5

(***************************************************************************)
(* Characters and strings                                                  *)
(***************************************************************************)
Chars == {"%", "2", "5", "F", "/", "j"}

Strings(n) == UNION { [1..k -> Chars] : k \in 0..n }

\* hexadecimal digits and their values
HexVal ==
  [c \in {"0","1","2","3","4","5","6","7","8","9"} |->
     CASE c = "0" -> 0 [] c = "1" -> 1 [] c = "2" -> 2 [] c = "3" -> 3
       [] c = "4" -> 4 [] c = "5" -> 5 [] c = "6" -> 6 [] c = "7" -> 7
       [] c = "8" -> 8 [] c = "9" -> 9]
  @@ [c \in {"A","B","C","D","E","F"} |->
     CASE c = "A" -> 10 [] c = "B" -> 11 [] c = "C" -> 12
       [] c = "D" -> 13 [] c = "E" -> 14 [] c = "F" -> 15]
  @@ [c \in {"a","b","c","d","e","f"} |->
     CASE c = "a" -> 10 [] c = "b" -> 11 [] c = "c" -> 12
       [] c = "d" -> 13 [] c = "e" -> 14 [] c = "f" -> 15]

IsHex(c) == c \in DOMAIN HexVal

\* the printable ASCII characters, code 32 (space) to code 126 (~); the
\* quotes, parentheses, star, backslash and grave are written as named tokens
Printable ==
  <<" ", "!", "<dquote>", "#", "$", "%", "&", "<quote>", "<lparen>", "<rparen>", "<star>", "+", ",", "-", ".", "/",
    "0", "1", "2", "3", "4", "5", "6", "7", "8", "9", ":", ";", "<", "=", ">", "?",
    "@", "A", "B", "C", "D", "E", "F", "G", "H", "I", "J", "K", "L", "M", "N", "O",
    "P", "Q", "R", "S", "T", "U", "V", "W", "X", "Y", "Z", "[", "<bslash>", "]", "^", "_",
    "<grave>", "a", "b", "c", "d", "e", "f", "g", "h", "i", "j", "k", "l", "m", "n", "o",
    "p", "q", "r", "s", "t", "u", "v", "w", "x", "y", "z", "{", "|", "}", "~">>

\* the character of a byte below 128 (control characters share one token)
AsciiChar(b) == IF b >= 32 /\ b <= 126 THEN Printable[b - 31] ELSE "<ctl>"

\* the byte a %XX escape at position i of s denotes, or -1 when s has no
\* well-formed escape there
EscapeAt(s, i) ==
  IF i + 2 <= Len(s) /\ s[i] = "%" /\ IsHex(s[i + 1]) /\ IsHex(s[i + 2])
  THEN 16 * HexVal[s[i + 1]] + HexVal[s[i + 2]]
  ELSE -1

\* how many continuation bytes a UTF-8 lead byte announces (-1: not a lead)
Continuations(b) ==
  IF b >= 194 /\ b <= 223 THEN 1
  ELSE IF b >= 224 /\ b <= 239 THEN 2
  ELSE IF b >= 240 /\ b <= 244 THEN 3
  ELSE -1

IsContinuation(b) == b >= 128 /\ b <= 191

Ok(v) == [ok |-> TRUE, val |-> v]
URIError == [ok |-> FALSE, val |-> <<>>]

\* decodeURIComponent: every %XX escape is replaced by the character it
\* encodes; a % not followed by two hex digits, or bytes that are not
\* well-formed UTF-8, throw URIError.
RECURSIVE DecodeFrom(_, _)
DecodeFrom(s, i) ==
  IF i > Len(s) THEN Ok(<<>>)
  ELSE IF s[i] # "%"
    THEN LET rest == DecodeFrom(s, i + 1)
         IN IF rest.ok THEN Ok(<<s[i]>> \o rest.val) ELSE URIError
  ELSE LET b == EscapeAt(s, i)
       IN IF b < 0 THEN URIError
          ELSE IF b < 128
            THEN LET rest == DecodeFrom(s, i + 3)
                 IN IF rest.ok THEN Ok(<<AsciiChar(b)>> \o rest.val) ELSE URIError
          ELSE LET n == Continuations(b)
               IN IF n < 0 \/ \E k \in 1..n : ~IsContinuation(EscapeAt(s, i + 3 * k))
                  THEN URIError
                  ELSE LET rest == DecodeFrom(s, i + 3 * (n + 1))
                       IN IF rest.ok THEN Ok(<<"<utf8>">> \o rest.val) ELSE URIError

decodeURIComponent(s) == DecodeFrom(s, 1)

endsWithSlash(s) == Len(s) > 0 /\ s[Len(s)] = "/"

\* key.slice(0, -1)
dropLast(s) == SubSeq(s, 1, Len(s) - 1)

\* pathname.replace(/^\/+/, ""): the leading run of slashes is removed
RECURSIVE stripLeadingSlashes(_)
stripLeadingSlashes(s) ==
  IF Len(s) > 0 /\ s[1] = "/" THEN stripLeadingSlashes(Tail(s)) ELSE s

(***************************************************************************)
(* Key computation of each handler                                         *)
(***************************************************************************)
\* [filename].ts onRequestGet: decodeURIComponent, then one trailing slash
\* is sliced off
GetKey(filename) ==
  LET d == decodeURIComponent(filename)
  IN IF ~d.ok THEN URIError
     ELSE IF endsWithSlash(d.val) THEN Ok(dropLast(d.val)) ELSE Ok(d.val)

\* onRequestPut, onRequestPatch, onRequestDelete: decodeURIComponent alone
WriteKey(filename) == decodeURIComponent(filename)

\* [[path]].ts: params.filename := decodeURIComponent(pathname without its
\* leading slashes)
CatchAllFilename(pathname) == decodeURIComponent(stripLeadingSlashes(pathname))

\* [[path]].ts followed by the delegated onRequestGet, which decodes
\* params.filename again
CatchAllKey(pathname) ==
  LET f == CatchAllFilename(pathname)
  IN IF ~f.ok THEN URIError ELSE GetKey(f.val)

(***************************************************************************)
(* Headers, metadata and objects                                           *)
(***************************************************************************)
\* A header name is <<prefix, rest>>; Headers lower-cases names, so the
\* prefix is "x-store-" exactly when key.startsWith("x-store-") holds.
XStore(rest) == <<"x-store-", rest>>
Plain(name) == <<"", name>>

startsWithXStore(h) == h[1] = "x-store-"

NoHeaders == [h \in {} |-> ""]

\* request header sets the clients send
ReqHeaders ==
  { [h \in {Plain("content-type")} |-> "image/png"],
    [h \in {XStore("visibility"), XStore("a"), Plain("content-type")} |->
       IF h = XStore("visibility") THEN "public"
       ELSE IF h = XStore("a") THEN "1" ELSE "image/png"],
    [h \in {XStore("type"), XStore("visibility")} |->
       IF h = XStore("type") THEN "text" ELSE "private"] }

Bodies == {"ascii", "binary"}

FallbackType == "application/octet-stream"
TextType == "text/plain;charset=utf-8"
\* GetObjectCommandOutput.ContentType is optional: absent, it reads undefined
Missing == "<undefined>"

\* ContentLength, ETag and LastModified as the store reports them
ContentLength(body) == IF body = "ascii" THEN "5" ELSE "4"
ETag(body) == <<"etag", body>>
LastModified == "Thu, 01 Jan 2026 00:00:00 GMT"

EmptyStore == [k \in {} |-> NoHeaders]

StoreSet(s, key, obj) == [k \in DOMAIN s \cup {key} |-> IF k = key THEN obj ELSE s[k]]
StoreRemove(s, key) == [k \in DOMAIN s \ {key} |-> s[k]]

(***************************************************************************)
(* Responses                                                               *)
(***************************************************************************)
Response(status, body, headers) ==
  [status |-> status, body |-> body, headers |-> headers]

NotFound == Response(404, "Not found", NoHeaders)
Unauthorized == Response(401, "Unauthorized", NoHeaders)
OK == Response(200, "OK", NoHeaders)
MethodNotAllowed == Response(405, "Method not allowed", NoHeaders)
\* an exception no handler catches: the runtime answers with a server error
Uncaught == Response(500, "exception", NoHeaders)

Out(r, s) == [resp |-> r, store |-> s]

(***************************************************************************)
(* mime.getType(key) of mime/lite                                          *)
(***************************************************************************)
\* what follows the last occurrence of a character of cs in s (s itself
\* when there is none)
afterLast(s, cs) ==
  IF \E i \in 1..Len(s) : s[i] \in cs
  THEN LET i == CHOOSE j \in 1..Len(s) :
                  s[j] \in cs /\ \A m \in (j + 1)..Len(s) : s[m] \notin cs
       IN SubSeq(s, i + 1, Len(s))
  ELSE s

MimeTypes ==
  [e \in {<<"j","s","o","n">>, <<"j","s">>, <<"t","x","t">>} |->
     IF e = <<"j","s","o","n">> THEN "application/json"
     ELSE IF e = <<"j","s">> THEN "application/javascript" ELSE "text/plain"]

\* null is written Missing
mimeGetType(path) ==
  LET last == afterLast(path, {"/"})
      ext == afterLast(last, {"."})
      hasPath == Len(last) < Len(path)
      hasDot == Len(ext) < Len(last) - 1
  IN IF (hasDot \/ ~hasPath) /\ ext \in DOMAIN MimeTypes THEN MimeTypes[ext]
     ELSE Missing

(***************************************************************************)
(* [filename].ts onRequestGet                                              *)
(***************************************************************************)
\* lines 43-53: the content-type header.  headers.set turns an undefined
\* value into the string "undefined".
ResolveContentType(declared, key, meta) ==
  LET contentType ==
        IF declared # FallbackType THEN declared
        ELSE IF mimeGetType(key) # Missing THEN mimeGetType(key) ELSE FallbackType
      header == IF contentType = Missing THEN "undefined" ELSE contentType
  IN IF XStore("type") \in DOMAIN meta /\ meta[XStore("type")] = "text"
     THEN TextType ELSE header

\* lines 37-57 and 65: the response headers of a retrieved object
GetHeaders(obj, key) ==
  LET native == {Plain("content-type"), Plain("content-length"),
                 Plain("last-modified"), Plain("etag"),
                 Plain("content-disposition")}
  IN [h \in DOMAIN obj.meta \cup native |->
        IF h = Plain("content-type")
          THEN ResolveContentType(obj.ctype, key, obj.meta)
        ELSE IF h = Plain("content-length") THEN ContentLength(obj.body)
        ELSE IF h = Plain("last-modified") THEN LastModified
        ELSE IF h = Plain("etag") THEN ETag(obj.body)
        ELSE IF h = Plain("content-disposition") THEN <<"inline; filename=", key>>
        ELSE obj.meta[h]]

\* variant: the gate ignores the visibility header
ReadDeniedIgnoringVisibility(meta, authorized) == ~authorized

\* line 60: headers.get("x-store-visibility") !== "public" && !auth
ReadDenied(meta, authorized) ==
  ~(XStore("visibility") \in DOMAIN meta /\ meta[XStore("visibility")] = "public")
  /\ ~authorized

\* the whole handler; `fault` says whether s3.send(GetObjectCommand) throws
\* for a reason other than a missing key
onRequestGet(s, filename, authorized, fault) ==
  LET k == GetKey(filename)
  IN IF ~k.ok THEN Out(Uncaught, s)
     ELSE IF fault # "none" \/ k.val \notin DOMAIN s THEN Out(NotFound, s)
     ELSE IF ReadDenied(s[k.val].meta, authorized) THEN Out(NotFound, s)
     ELSE Out(Response(200, s[k.val].body, GetHeaders(s[k.val], k.val)), s)

\* [[path]].ts onRequestGet
onRequestGetPath(s, pathname, authorized, fault) ==
  LET f == CatchAllFilename(pathname)
  IN IF ~f.ok THEN Out(Uncaught, s)
     ELSE onRequestGet(s, f.val, authorized, fault)

(***************************************************************************)
(* onRequestPut, onRequestPatch, onRequestDelete, onRequest                *)
(***************************************************************************)
\* lines 81-87 and 113-119: the x-store-* request headers
XStoreHeaders(headers) ==
  [h \in {x \in DOMAIN headers : startsWithXStore(x)} |-> headers[h]]

\* the object an Upload without a ContentType creates
NewObject(body, meta) == [body |-> body, meta |-> meta, ctype |-> FallbackType]

onRequestPut(s, filename, authorized, headers, body, fault) ==
  IF ~authorized THEN Out(Unauthorized, s)
  ELSE LET k == WriteKey(filename)
       IN IF ~k.ok THEN Out(Uncaught, s)
          \* leavePartsOnError: false -- a failed upload leaves nothing behind
          ELSE IF fault # "none" THEN Out(Uncaught, s)
          ELSE Out(OK, StoreSet(s, k.val, NewObject(body, XStoreHeaders(headers))))

\* variant: the copy merges the new metadata into the old (no REPLACE)
onRequestPatchMerging(s, filename, authorized, headers, fault) ==
  IF ~authorized THEN Out(Unauthorized, s)
  ELSE LET k == WriteKey(filename)
       IN IF ~k.ok THEN Out(Uncaught, s)
          ELSE IF fault # "none" \/ k.val \notin DOMAIN s THEN Out(Uncaught, s)
          ELSE Out(OK, StoreSet(s, k.val,
                                NewObject(s[k.val].body,
                                          XStoreHeaders(headers) @@ s[k.val].meta)))

\* variant: a PATCH on an absent key creates an empty object
onRequestPatchCreating(s, filename, authorized, headers, fault) ==
  IF ~authorized THEN Out(Unauthorized, s)
  ELSE LET k == WriteKey(filename)
       IN IF ~k.ok THEN Out(Uncaught, s)
          ELSE IF fault # "none" THEN Out(Uncaught, s)
          ELSE Out(OK, StoreSet(s, k.val,
                                NewObject(IF k.val \in DOMAIN s THEN s[k.val].body
                                          ELSE "ascii",
                                          XStoreHeaders(headers))))

\* CopyObject onto itself with MetadataDirective REPLACE: the content is
\* kept, the metadata (and the undeclared content type) replaced; a missing
\* source makes s3.send throw
onRequestPatch(s, filename, authorized, headers, fault) ==
  IF ~authorized THEN Out(Unauthorized, s)
  ELSE LET k == WriteKey(filename)
       IN IF ~k.ok THEN Out(Uncaught, s)
          ELSE IF fault # "none" \/ k.val \notin DOMAIN s THEN Out(Uncaught, s)
          ELSE Out(OK, StoreSet(s, k.val,
                                NewObject(s[k.val].body, XStoreHeaders(headers))))

\* variant: the delete is issued before the authorization is looked at
onRequestDeleteBeforeAuth(s, filename, authorized, fault) ==
  LET k == WriteKey(filename)
  IN IF ~k.ok THEN Out(Uncaught, s)
     ELSE IF ~authorized THEN Out(Unauthorized, StoreRemove(s, k.val))
     ELSE Out(OK, StoreRemove(s, k.val))

\* fetch(presigned url, DELETE): "none" -- the store deletes (an absent key
\* too answers 204); "http_error" -- the store answers an error status,
\* which fetch resolves with and the handler never reads; "network_error"
\* -- fetch rejects
onRequestDelete(s, filename, authorized, fault) ==
  IF ~authorized THEN Out(Unauthorized, s)
  ELSE LET k == WriteKey(filename)
       IN IF ~k.ok THEN Out(Uncaught, s)
          ELSE IF fault = "network_error" THEN Out(Uncaught, s)
          ELSE IF fault = "http_error" THEN Out(OK, s)
          ELSE Out(OK, StoreRemove(s, k.val))

onRequest(s) == Out(MethodNotAllowed, s)


(***************************************************************************)
(* Requests                                                                *)
(***************************************************************************)
\* raw filename parameters of the /:filename route (one path segment, so no
\* raw slash): plain, ending in an encoded slash, and a malformed escape
FileNames ==
  { <<"j">>, <<"j","%","2","F">>, <<"%">> }

\* request paths the catch-all route receives
PathNames ==
  { <<"/","j">>, <<"/","j","/","j">>, <<"/","j","%","2","F">>,
    <<"/","j","%","2","F","%","2","F">>, <<"/","%","2","5">>, <<"/">> }

OtherMethods == {"OPTIONS", "POST"}
GetFaults == {"none", "storage_error"}
DeleteFaults == {"none", "http_error", "network_error"}

Request(method, route, raw, authorized, headers, body, fault) ==
  [method |-> method, route |-> route, raw |-> raw, auth |-> authorized,
   headers |-> headers, body |-> body, fault |-> fault]

NoRequest == Request("none", "none", <<>>, FALSE, NoHeaders, "none", "none")
Idle == Response(0, "none", NoHeaders)

\* a request matched by no exported handler is passed on to the platform's
\* static-asset layer, whose answer this repository does not decide
PlatformResponses ==
  { Response(404, "<platform>", NoHeaders), Response(405, "<platform>", NoHeaders) }

Init ==
  /\ store = EmptyStore
  /\ before = EmptyStore
  /\ req = NoRequest
  /\ resp = Idle

Get ==
  \E f \in FileNames, a \in BOOLEAN, fault \in GetFaults :
    LET out == onRequestGet(store, f, a, fault)
    IN /\ req' = Request("GET", "file", f, a, NoHeaders, "none", fault)
       /\ before' = store
       /\ resp' = out.resp
       /\ store' = out.store

GetPath ==
  \E p \in PathNames, a \in BOOLEAN, fault \in GetFaults :
    LET out == onRequestGetPath(store, p, a, fault)
    IN /\ req' = Request("GET", "path", p, a, NoHeaders, "none", fault)
       /\ before' = store
       /\ resp' = out.resp
       /\ store' = out.store

Put ==
  \E f \in FileNames, a \in BOOLEAN, h \in ReqHeaders, b \in Bodies,
     fault \in GetFaults :
    LET out == onRequestPut(store, f, a, h, b, fault)
    IN /\ req' = Request("PUT", "file", f, a, h, b, fault)
       /\ before' = store
       /\ resp' = out.resp
       /\ store' = out.store

Patch ==
  \E f \in FileNames, a \in BOOLEAN, h \in ReqHeaders, fault \in GetFaults :
    LET out == onRequestPatch(store, f, a, h, fault)
    IN /\ req' = Request("PATCH", "file", f, a, h, "none", fault)
       /\ before' = store
       /\ resp' = out.resp
       /\ store' = out.store

Delete ==
  \E f \in FileNames, a \in BOOLEAN, fault \in DeleteFaults :
    LET out == onRequestDelete(store, f, a, fault)
    IN /\ req' = Request("DELETE", "file", f, a, NoHeaders, "none", fault)
       /\ before' = store
       /\ resp' = out.resp
       /\ store' = out.store

\* any other method on /:filename reaches the module's onRequest
Other ==
  \E m \in OtherMethods, f \in FileNames, a \in BOOLEAN :
    LET out == onRequest(store)
    IN /\ req' = Request(m, "file", f, a, NoHeaders, "none", "none")
       /\ before' = store
       /\ resp' = out.resp
       /\ store' = out.store

\* [[path]].ts exports onRequestGet alone: no other method has a handler
OtherPath ==
  \E m \in OtherMethods, p \in PathNames, a \in BOOLEAN, r \in PlatformResponses :
    /\ req' = Request(m, "path", p, a, NoHeaders, "none", "none")
    /\ before' = store
    /\ resp' = r
    /\ store' = store

Next == Get \/ GetPath \/ Put \/ Patch \/ Delete \/ Other \/ OtherPath

Spec == Init /\ [][Next]_vars


(***************************************************************************)
(* Properties of the request specification                                 *)
(***************************************************************************)
\* the key a GET request makes the handler ask the store for
ReadKey(r) == IF r.route = "path" THEN CatchAllKey(r.raw) ELSE GetKey(r.raw)

IsPublic(obj) ==
  XStore("visibility") \in DOMAIN obj.meta /\ obj.meta[XStore("visibility")] = "public"

Mutating == {"PUT", "PATCH", "DELETE"}

\* every response a GET without storage fault gives for key k, by either route
ReadsOf(s, k, authorized) ==
  { onRequestGet(s, f, authorized, "none").resp :
      f \in {n \in FileNames : GetKey(n) = Ok(k)} }
  \cup { onRequestGetPath(s, p, authorized, "none").resp :
      p \in {n \in PathNames : CatchAllKey(n) = Ok(k)} }

\* h is a sub-map of g
SubMap(h, g) == \A x \in DOMAIN h : x \in DOMAIN g /\ g[x] = h[x]

\* C1 as stated: a GET on the key of a stored object answers 200 with the
\* object if and only if the object is public or the request is authorized,
\* and answers 404 "Not found" otherwise.
C1_GetIffPublicOrAuthorized ==
  (req.method = "GET" /\ ReadKey(req).ok /\ ReadKey(req).val \in DOMAIN before)
    => LET obj == before[ReadKey(req).val]
       IN IF IsPublic(obj) \/ req.auth
          THEN resp.status = 200 /\ resp.body = obj.body
          ELSE resp = NotFound

\* C1 amended: a GET on the key of a stored object answers 200 with the
\* object if and only if the store retrieves the object and the object is
\* public or the request is authorized; in every other case, a failed
\* retrieval included, the answer is 404 "Not found", the very response a
\* GET on an absent key gets, and never 401 or 403.
C1_GetIffRetrievedAndAllowed ==
  (req.method = "GET" /\ ReadKey(req).ok)
    => IF ReadKey(req).val \in DOMAIN before
       THEN LET obj == before[ReadKey(req).val]
            IN IF req.fault = "none" /\ (IsPublic(obj) \/ req.auth)
               THEN resp.status = 200 /\ resp.body = obj.body
               ELSE resp = NotFound
       ELSE resp = NotFound

\* a private object is asked for without credentials and the store retrieves it
C1_Witness ==
  /\ req.method = "GET" /\ ReadKey(req).ok /\ ReadKey(req).val \in DOMAIN before
  /\ ~IsPublic(before[ReadKey(req).val]) /\ ~req.auth /\ req.fault = "none"
  /\ resp = NotFound

\* C2: an unauthorized PUT, PATCH or DELETE answers 401 and leaves the
\* bucket as it was, whatever the target's visibility.
C2_UnauthorizedWriteRejected ==
  (req.method \in Mutating /\ ~req.auth)
    => resp.status = 401 /\ store = before

\* an unauthorized write aimed at a stored public object
C2_Witness ==
  /\ req.method \in Mutating /\ ~req.auth
  /\ WriteKey(req.raw).ok /\ WriteKey(req.raw).val \in DOMAIN before
  /\ IsPublic(before[WriteKey(req.raw).val])
  /\ resp.status = 401

\* C3: once an authorized PUT on /f has succeeded, an authorized GET on the
\* same /f answers 200 with the body and every x-store-* header of the PUT.
C3_PutGetRoundTrip ==
  (req.method = "PUT" /\ resp = OK)
    => LET g == onRequestGet(store, req.raw, TRUE, "none").resp
       IN /\ g.status = 200
          /\ g.body = req.body
          /\ SubMap(XStoreHeaders(req.headers), g.headers)

\* C4: a successful PATCH keeps the object's content, makes its metadata
\* exactly the x-store-* headers of the request, touches no other object,
\* and every following GET of the object shows those headers and no other
\* x-store-* header.
C4_PatchReplacesMetadata ==
  (req.method = "PATCH" /\ resp = OK)
    => LET k == WriteKey(req.raw).val
           m == XStoreHeaders(req.headers)
       IN /\ k \in DOMAIN before
          /\ DOMAIN store = DOMAIN before
          /\ store[k].body = before[k].body
          /\ store[k].meta = m
          /\ \A o \in DOMAIN before \ {k} : store[o] = before[o]
          /\ \A g \in ReadsOf(store, k, TRUE) :
               /\ g.status = 200 /\ g.body = before[k].body
               /\ SubMap(m, g.headers)
               /\ \A h \in DOMAIN g.headers : startsWithXStore(h) => h \in DOMAIN m

\* a PATCH that drops a metadata key the object had, read back afterwards
C4_Witness ==
  /\ req.method = "PATCH" /\ resp = OK
  /\ LET k == WriteKey(req.raw).val
     IN /\ k \in DOMAIN before
        /\ DOMAIN before[k].meta \ DOMAIN XStoreHeaders(req.headers) # {}
        /\ XStoreHeaders(req.headers) # NoHeaders
        /\ ReadsOf(store, k, TRUE) # {}

\* C5: a DELETE that answered 200 has removed the object, so every GET on
\* its key answers 404; and an authorized DELETE of an absent key answers 200.
C5_DeleteRemoves ==
  /\ (req.method = "DELETE" /\ resp.status = 200)
       => LET k == WriteKey(req.raw).val
          IN /\ k \notin DOMAIN store
             /\ \A a \in BOOLEAN : \A g \in ReadsOf(store, k, a) : g = NotFound
  /\ (req.method = "DELETE" /\ req.auth /\ req.fault = "none"
        /\ WriteKey(req.raw).ok /\ WriteKey(req.raw).val \notin DOMAIN before)
       => resp = OK

\* C6: a method other than GET, PUT, PATCH and DELETE answers 405 "Method
\* not allowed" on the /:filename route and on the catch-all route alike.
C6_OtherMethodsNotAllowed ==
  (req.method \in OtherMethods) => resp = MethodNotAllowed

\* C10: an authorized PATCH on an absent key answers a server error, creates
\* nothing, and a following GET on that key still answers 404.
C10_PatchMissingFails ==
  (req.method = "PATCH" /\ req.auth /\ WriteKey(req.raw).ok
     /\ WriteKey(req.raw).val \notin DOMAIN before)
    => /\ resp.status = 500
       /\ store = before
       /\ \A a \in BOOLEAN :
            \A g \in ReadsOf(store, WriteKey(req.raw).val, a) : g = NotFound

\* an authorized PATCH on an absent key whose key a GET can ask for, while
\* the bucket holds another object
C10_Witness ==
  /\ req.method = "PATCH" /\ req.auth /\ req.fault = "none"
  /\ WriteKey(req.raw).ok /\ WriteKey(req.raw).val \notin DOMAIN before
  /\ DOMAIN before # {}
  /\ ReadsOf(store, WriteKey(req.raw).val, TRUE) # {}
  /\ resp.status = 500


(***************************************************************************)
(* Key computation on every raw string up to MaxLen                        *)
(***************************************************************************)
KeyInput(raw) == Request("KEY", "none", raw, FALSE, NoHeaders, "none", "none")

InitKey ==
  /\ store = EmptyStore
  /\ before = EmptyStore
  /\ req \in { KeyInput(raw) : raw \in Strings(MaxLen) }
  /\ resp = Idle

\* the read handler's normalization applied once, and applied again to its
\* own result
NormalizeTwice ==
  /\ req.method = "KEY"
  /\ LET once == GetKey(req.raw)
     IN resp' = [kind |-> "normalize", once |-> once,
                 twice |-> IF once.ok THEN GetKey(once.val) ELSE URIError]
  /\ UNCHANGED <<store, before, req>>

\* the keys /:filename computes for the raw parameter: GET, and the writes
FileRouteKeys ==
  /\ req.method = "KEY"
  /\ Len(req.raw) > 0 /\ \A i \in 1..Len(req.raw) : req.raw[i] # "/"
  /\ resp' = [kind |-> "file", read |-> GetKey(req.raw), write |-> WriteKey(req.raw)]
  /\ UNCHANGED <<store, before, req>>

\* the key the catch-all route asks the store for, for the path /raw
PathRouteKey ==
  /\ req.method = "KEY"
  /\ resp' = [kind |-> "path", pathname |-> <<"/">> \o req.raw,
              key |-> CatchAllKey(<<"/">> \o req.raw)]
  /\ UNCHANGED <<store, before, req>>

NextKey == NormalizeTwice \/ FileRouteKeys \/ PathRouteKey

SpecKey == InitKey /\ [][NextKey]_vars

\* C7: the key the catch-all route asks for is the path with its leading
\* slashes stripped, percent-decoded once, less one trailing slash -- the key
\* the /:filename route computes for the same text.
C7_PathDecodedOnce ==
  (resp # Idle /\ resp.kind = "path")
    => LET d == decodeURIComponent(stripLeadingSlashes(resp.pathname))
           once == IF ~d.ok THEN URIError
                   ELSE IF endsWithSlash(d.val) THEN Ok(dropLast(d.val)) ELSE d
       IN resp.key = once /\ resp.key = GetKey(stripLeadingSlashes(resp.pathname))

\* C8: normalize(normalize(k)) = normalize(k) wherever normalize(k) is defined.
C8_NormalizeIdempotent ==
  (resp # Idle /\ resp.kind = "normalize" /\ resp.once.ok) => resp.twice = resp.once

(***************************************************************************)
(* Content-type resolution on objects of every declared type               *)
(***************************************************************************)
\* raw filenames whose keys have a known extension, an unknown one, none,
\* and a bare extension name behind a slash
TypedNames ==
  { <<"j">>, <<"j",".","j","s","o","n">>, <<"j",".","t","x","t">>,
    <<"j",".","j">>, <<"j","%","2","F","j","s","o","n">> }

DeclaredTypes == {FallbackType, "image/png", Missing}

TypedMetas ==
  { NoHeaders,
    [h \in {XStore("type")} |-> "text"],
    [h \in {XStore("type"), XStore("visibility")} |->
       IF h = XStore("type") THEN "html" ELSE "public"] }

InitTyped ==
  /\ \E f \in TypedNames, c \in DeclaredTypes, m \in TypedMetas, b \in Bodies :
       store = StoreSet(EmptyStore, GetKey(f).val,
                        [body |-> b, meta |-> m, ctype |-> c])
  /\ before = store
  /\ req = NoRequest
  /\ resp = Idle

GetTyped ==
  \E f \in TypedNames, a \in BOOLEAN, fault \in GetFaults :
    LET out == onRequestGet(store, f, a, fault)
    IN /\ req' = Request("GET", "file", f, a, NoHeaders, "none", fault)
       /\ before' = store
       /\ resp' = out.resp
       /\ store' = out.store

NextTyped == GetTyped

SpecTyped == InitTyped /\ [][NextTyped]_vars

\* C9: the content-type of a successful GET is text/plain;charset=utf-8 for
\* x-store-type "text", else the declared type unless it is the fallback,
\* else the type of the key's extension, else the fallback; and it is never
\* empty or undefined, whatever the store declares (nothing included).
C9_ContentTypeResolved ==
  (req.method = "GET" /\ resp.status = 200)
    => LET obj == before[GetKey(req.raw).val]
           key == GetKey(req.raw).val
           expected ==
             IF XStore("type") \in DOMAIN obj.meta /\ obj.meta[XStore("type")] = "text"
               THEN TextType
             ELSE IF obj.ctype # FallbackType THEN obj.ctype
             ELSE IF mimeGetType(key) # Missing THEN mimeGetType(key)
             ELSE FallbackType
           ct == resp.headers[Plain("content-type")]
       IN ct = expected /\ ct \notin {"", "undefined", Missing}


=============================================================================
